---- MODULE Spec2Model ----
(***************************************************************************)
(* Entity resolution, aggregation and caching layer of the SAP Commerce    *)
(* Cloud bridge: CategoriesService (category forest, id/url cache,         *)
(* pagination), and the bulk resolvers of categories, products and content *)
(* pages on top of the Remote Client.                                      *)
(***************************************************************************)
EXTENDS Integers, Sequences, FiniteSets, TLC

(***************************************************************************)
(* Bounds of the model and program constants.                              *)
(***************************************************************************)
MaxNodes == 3
MaxRemote == 2
MaxWide == 41
MaxPage == 3
MaxCalls == 2
MaxIds == 3
LIMIT == 20

(***************************************************************************)
(* JavaScript values that can be undefined are tagged with their type.     *)
(***************************************************************************)
undefined == [type |-> "undefined"]
Num(n) == [type |-> "number", v |-> n]
Bool(b) == [type |-> "boolean", v |-> b]
Arr(s) == [type |-> "array", v |-> s]
Str(s) == [type |-> "string", v |-> s]
\* r.f, undefined when the object has no such property
Field(r, f) == IF f \in DOMAIN r THEN Str(r[f]) ELSE undefined
\* !!x for a string or undefined
TruthyValue(x) == x.type # "undefined" /\ x.v # ""

Min(a, b) == IF a < b THEN a ELSE b

(***************************************************************************)
(* Strings that the code inspects character by character (category names, *)
(* keywords) are sequences of characters; the empty sequence is the empty  *)
(* (or missing) string, which is falsy.  Identifiers and urls are only     *)
(* compared for equality and are TLA+ strings; "" is the absent parentId.  *)
(***************************************************************************)
Lower(c) == CASE c = "S" -> "s"
              [] c = "H" -> "h"
              [] c = "O" -> "o"
              [] c = "N" -> "n"
              [] c = "E" -> "e"
              [] OTHER -> c
toLowerCase(s) == [i \in 1..Len(s) |-> Lower(s[i])]
includes(s, q) == \E i \in 0..(Len(s) - Len(q)) : SubSeq(s, i + 1, i + Len(q)) = q
\* !!s for a character sequence, and for an identifier
Truthy(s) == s # <<>>
TruthyId(id) == id # ""

\* Array.prototype.slice(start, end) for 0 <= start <= end
slice(s, start, end) ==
    IF start >= Len(s) THEN <<>> ELSE SubSeq(s, start + 1, Min(end, Len(s)))

(***************************************************************************)
(* Category forests of the remote platform: {id, url, name, subcategories} *)
(***************************************************************************)
Ids == {"a", "b"}
Urls == {"b", "u"}
Names == {<<>>, <<"N">>}
Labels == [id : Ids, url : Urls, name : Names]
NoParent == ""
\* getCategoryUrl passes the boolean true in the place of parentId; it is
\* truthy and strictly equal to no category id.
BoolTrue == "<true>"

RECURSIVE ForestsOfSize(_, _)
ForestsOfSize(n, labels) ==
    IF n = 0 THEN {<<>>}
    ELSE UNION {
           { <<[id |-> l.id, url |-> l.url, name |-> l.name, subcategories |-> s]>> \o rest :
               l \in labels, s \in ForestsOfSize(k - 1, labels), rest \in ForestsOfSize(n - k, labels) }
           : k \in 1..n }

\* Loops over a list are evaluated by halves (the first half, then the
\* second), which visits the elements in the order of the loop and keeps the
\* evaluation shallow on long lists.
\* TLC evaluates the argument of an operator where it is first used; the
\* result of the first half is evaluated before the second half starts.
Evaluated(x) == x = x
FirstHalf(s) == SubSeq(s, 1, Len(s) \div 2)
SecondHalf(s) == SubSeq(s, (Len(s) \div 2) + 1, Len(s))

\* All categories of a forest, at every depth, in pre-order.
RECURSIVE Nodes(_)
Nodes(categories) ==
    IF categories = <<>> THEN <<>>
    ELSE IF Len(categories) = 1
         THEN <<categories[1]>> \o Nodes(categories[1].subcategories)
         ELSE Nodes(FirstHalf(categories)) \o Nodes(SecondHalf(categories))

Range(s) == { s[i] : i \in 1..Len(s) }

(***************************************************************************)
(* CategoriesService: pure functions                                       *)
(***************************************************************************)
RECURSIVE buildCategoryTree(_)
buildCategoryTree(categories) ==
    [i \in 1..Len(categories) |->
        LET c == categories[i]
            children == buildCategoryTree(c.subcategories)
        IN IF Len(children) # 0
           THEN [id |-> c.id, label |-> c.name, children |-> children]
           ELSE [id |-> c.id, label |-> c.name]]

RECURSIVE getCategoryList(_)
getCategoryList(categories) ==
    IF categories = <<>> THEN <<>>
    ELSE IF Len(categories) = 1
         THEN LET category == categories[1]
              IN <<[id |-> category.id, label |-> category.name]>>
                 \o (IF Len(category.subcategories) # 0
                     THEN getCategoryList(category.subcategories) ELSE <<>>)
         ELSE getCategoryList(FirstHalf(categories)) \o getCategoryList(SecondHalf(categories))

\* The result of the subtree search: an array, or undefined.  `a || b`.
OrElse(a, b) == IF a.type # "undefined" THEN a ELSE b

RECURSIVE getRelevantCategories(_, _, _), searchLoop(_, _, _, _)
\* the loop that takes a match without subcategories for no match
searchLoopChildless(categories, parentId, getTree, result) ==
    IF categories = <<>> THEN result
    ELSE IF Len(categories) = 1
         THEN LET category == categories[1]
                  matched == IF category.id = parentId /\ category.subcategories # <<>>
                             THEN Arr(IF getTree THEN buildCategoryTree(category.subcategories)
                                                 ELSE getCategoryList(category.subcategories))
                             ELSE result
              IN OrElse(getRelevantCategories(category.subcategories, parentId, getTree), matched)
         ELSE LET first == searchLoop(FirstHalf(categories), parentId, getTree, result)
              IN CASE Evaluated(first) -> searchLoop(SecondHalf(categories), parentId, getTree, first)

searchLoop(categories, parentId, getTree, result) ==
    IF categories = <<>> THEN result
    ELSE IF Len(categories) = 1
         THEN LET category == categories[1]
                  matched == IF category.id = parentId
                             THEN Arr(IF getTree THEN buildCategoryTree(category.subcategories)
                                                 ELSE getCategoryList(category.subcategories))
                             ELSE result
              IN OrElse(getRelevantCategories(category.subcategories, parentId, getTree), matched)
         ELSE LET first == searchLoop(FirstHalf(categories), parentId, getTree, result)
              IN CASE Evaluated(first) -> searchLoop(SecondHalf(categories), parentId, getTree, first)
\* the search that stops at the first match in pre-order
getRelevantCategoriesFirstMatch(categories, parentId, getTree) ==
    LET hits == SelectSeq(Nodes(categories), LAMBDA c : c.id = parentId)
    IN IF TruthyId(parentId)
       THEN IF hits = <<>> THEN undefined
            ELSE Arr(IF getTree THEN buildCategoryTree(hits[1].subcategories)
                                ELSE getCategoryList(hits[1].subcategories))
       ELSE Arr(IF getTree THEN buildCategoryTree(categories) ELSE getCategoryList(categories))

getRelevantCategories(categories, parentId, getTree) ==
    IF TruthyId(parentId)
    THEN searchLoop(categories, parentId, getTree, undefined)
    ELSE Arr(IF getTree THEN buildCategoryTree(categories) ELSE getCategoryList(categories))

\* idCache is a Map: a function from its keys to their values.
EmptyMap == <<>>
MapSet(m, k, v) == (k :> v) @@ m
MapHas(m, k) == k \in DOMAIN m
MapSize(m) == Cardinality(DOMAIN m)

\* buildCache that records the id -> url direction only
RECURSIVE buildCacheOneWay(_, _)
buildCacheOneWay(cache, categories) ==
    IF categories = <<>> THEN cache
    ELSE IF Len(categories) = 1
         THEN LET c == categories[1]
                  own == MapSet(cache, c.id, c.url)
              IN buildCacheOneWay(own, c.subcategories)
         ELSE LET first == buildCacheOneWay(cache, FirstHalf(categories))
              IN CASE Evaluated(first) -> buildCacheOneWay(first, SecondHalf(categories))

\* buildCache that does not descend into the subcategories
RECURSIVE buildCacheTopLevel(_, _)
buildCacheTopLevel(cache, categories) ==
    IF categories = <<>> THEN cache
    ELSE IF Len(categories) = 1
         THEN LET c == categories[1]
              IN MapSet(MapSet(cache, c.id, c.url), c.url, c.id)
         ELSE LET first == buildCacheTopLevel(cache, FirstHalf(categories))
              IN CASE Evaluated(first) -> buildCacheTopLevel(first, SecondHalf(categories))

RECURSIVE buildCache(_, _)
buildCache(cache, categories) ==
    IF categories = <<>> THEN cache
    ELSE IF Len(categories) = 1
         THEN LET c == categories[1]
                  own == MapSet(MapSet(cache, c.id, c.url), c.url, c.id)
              IN buildCache(own, c.subcategories)
         ELSE LET first == buildCache(cache, FirstHalf(categories))
              IN CASE Evaluated(first) -> buildCache(first, SecondHalf(categories))

\* categories.filter(({ name }) => !!name)
IsNamed(c) == Truthy(c.name)
filterNamed(categories) == SelectSeq(categories, IsNamed)

\* fetchCategories after the response: what it returns for the forest received
fetchCategories(forest, parentId, getTree) ==
    LET categories == filterNamed(forest)
    IN [data |-> OrElse(getRelevantCategories(categories, parentId, getTree), Arr(<<>>)).v,
        total |-> Len(categories)]

filterCategories(keyword, categories) ==
    LET query == toLowerCase(keyword)
        Matches(category) == Truthy(category.label) /\ includes(toLowerCase(category.label), query)
    IN SelectSeq(categories, Matches)

\* countCategories that counts the top level only
countCategoriesTopLevel(tree) == Len(tree)

RECURSIVE countCategories(_)
countCategories(tree) ==
    IF tree = <<>> THEN 0
    ELSE IF Len(tree) = 1
         THEN LET node == tree[1]
                  children == IF "children" \in DOMAIN node THEN node.children ELSE <<>>
              IN 1 + countCategories(children)
         ELSE countCategories(FirstHalf(tree)) + countCategories(SecondHalf(tree))

\* categoriesGet whose hasNext is a strict comparison
categoriesGetStrictNext(forest, parentId, keyword, page) ==
    LET fetched == fetchCategories(forest, parentId, FALSE).data
        data == IF Truthy(keyword) THEN filterCategories(keyword, fetched) ELSE fetched
        total == Len(data)
        pageSize == LIMIT
        hasNext == page * pageSize < total
        start == pageSize * (page - 1)
        end == pageSize * page
        categories == slice(data, start, end)
    IN [categories |-> Arr(categories), total |-> Num(total), hasNext |-> Bool(hasNext)]

\* categoriesGet, from the forest of the response on
categoriesGet(forest, parentId, keyword, page) ==
    LET fetched == fetchCategories(forest, parentId, FALSE).data
        data == IF Truthy(keyword) THEN filterCategories(keyword, fetched) ELSE fetched
        total == Len(data)
        pageSize == LIMIT
        hasNext == page * pageSize <= total
        start == pageSize * (page - 1)
        end == pageSize * page
        categories == slice(data, start, end)
    IN [categories |-> Arr(categories), total |-> Num(total), hasNext |-> Bool(hasNext)]

\* categoryTreeGet, from the forest of the response on
categoryTreeGet(forest, parentId) ==
    LET data == fetchCategories(forest, parentId, TRUE).data
        total == countCategories(data)
    IN [categorytree |-> Arr(data), total |-> Num(total)]

\* getCategoryUrl after the cache check: the lookup
null == [type |-> "null"]
lookupUrl(cache, categoryId) ==
    IF MapHas(cache, categoryId) THEN [url |-> cache[categoryId]] ELSE null

(***************************************************************************)
(* State                                                                   *)
(***************************************************************************)
VARIABLES
    remote,     \* the category forest the remote platform holds
    idCache,    \* CategoriesService.idCache
    calls,      \* the calls of the category service that await their fetch
    last,       \* the call that completed last: its arguments and outcome
    built,      \* the categories most recently passed to buildCache
    bOp,        \* the bulk or search operation in progress, with its arguments
    fetches,    \* its remote fetches, by position: pending, or how each settled
    hasError,   \* its local hasError
    lastError,  \* its local lastError (errorMessage in ProductsService)
    outcome,    \* how the operation settled: its promise
    order       \* the positions of the fetches in the order they settled

catVars == <<remote, idCache, calls, last, built>>
bulkVars == <<bOp, fetches, hasError, lastError, outcome, order>>
vars == <<remote, idCache, calls, last, built, bOp, fetches, hasError, lastError, outcome, order>>

(***************************************************************************)
(* The category service                                                    *)
(***************************************************************************)
Slots == 1..MaxCalls
Idle == [pc |-> "idle"]
NoCall == [status |-> "none"]
\* classified errors of the Remote Client
Errors == { [error |-> TRUE, data |-> "unavailable", status |-> 500],
            [error |-> TRUE, data |-> "forbidden", status |-> 403] }

ParentIds == {NoParent} \cup Ids
Keys == Ids \cup Urls
Keywords == {<<>>, <<"n">>}

NoOp == [op |-> "none"]
InitBulk ==
    /\ bOp = NoOp
    /\ fetches = <<>>
    /\ hasError = FALSE
    /\ lastError = undefined
    /\ outcome = NoCall
    /\ order = <<>>


InitCat(forests) ==
    /\ remote \in forests
    /\ idCache = EmptyMap
    /\ calls = [s \in Slots |-> Idle]
    /\ last = NoCall
    /\ built = <<>>
    /\ InitBulk

\* a call occupies the first free one of the slots while it awaits its fetch
FreeSlot(slots, s) ==
    /\ s \in slots
    /\ calls[s].pc = "idle"
    /\ \A t \in slots : t < s => calls[t].pc # "idle"

CategoriesGetStart(slots, parentId, keyword, page) ==
    \E s \in slots :
        /\ FreeSlot(slots, s)
        /\ calls' = [calls EXCEPT ![s] = [pc |-> "await", op |-> "categoriesGet",
                                          parentId |-> parentId, getTree |-> FALSE,
                                          keyword |-> keyword, page |-> page]]
        /\ UNCHANGED <<remote, idCache, last, built, bulkVars>>

CategoryTreeGetStart(slots, parentId) ==
    \E s \in slots :
        /\ FreeSlot(slots, s)
        /\ calls' = [calls EXCEPT ![s] = [pc |-> "await", op |-> "categoryTreeGet",
                                          parentId |-> parentId, getTree |-> TRUE]]
        /\ UNCHANGED <<remote, idCache, last, built, bulkVars>>

\* getCategoryUrl that fetches whatever the cache holds
GetCategoryUrlAlwaysFetch(slots, categoryId) ==
    \E s \in slots :
        /\ FreeSlot(slots, s)
        /\ calls' = [calls EXCEPT ![s] = [pc |-> "await", op |-> "getCategoryUrl",
                                          parentId |-> BoolTrue, getTree |-> FALSE,
                                          categoryId |-> categoryId]]
        /\ UNCHANGED <<remote, idCache, last, built, bulkVars>>

\* idCache.size || (await fetchCategories(lang, true))
GetCategoryUrlStart(slots, categoryId) ==
    IF MapSize(idCache) # 0
    THEN /\ last' = [call |-> [op |-> "getCategoryUrl", categoryId |-> categoryId],
                     status |-> "resolved", fetched |-> FALSE,
                     value |-> lookupUrl(idCache, categoryId)]
         /\ UNCHANGED <<remote, idCache, calls, built, bulkVars>>
    ELSE \E s \in slots :
            /\ FreeSlot(slots, s)
            /\ calls' = [calls EXCEPT ![s] = [pc |-> "await", op |-> "getCategoryUrl",
                                              parentId |-> BoolTrue, getTree |-> FALSE,
                                              categoryId |-> categoryId]]
            /\ UNCHANGED <<remote, idCache, last, built, bulkVars>>

\* the arguments of a call, as `last` keeps them
ArgsOf(call) == [f \in (DOMAIN call) \ {"pc", "parentId", "getTree"} |-> call[f]]
                   @@ (IF call.op = "getCategoryUrl" THEN <<>>
                       ELSE [parentId |-> call.parentId])

\* a fetch that replaces the cache by the entries of its forest
FetchResolveReplace(s) ==
    LET call == calls[s]
        categories == filterNamed(remote)
        cache == buildCache(EmptyMap, categories)
        value == CASE call.op = "categoriesGet" ->
                        categoriesGet(remote, call.parentId, call.keyword, call.page)
                   [] call.op = "categoryTreeGet" ->
                        categoryTreeGet(remote, call.parentId)
                   [] call.op = "getCategoryUrl" ->
                        lookupUrl(cache, call.categoryId)
    IN /\ call.pc = "await"
       /\ idCache' = cache
       /\ built' = categories
       /\ last' = [call |-> ArgsOf(call), fetched |-> TRUE,
                   response |-> [ok |-> TRUE, forest |-> remote],
                   status |-> "resolved", value |-> value]
       /\ calls' = [calls EXCEPT ![s] = Idle]
       /\ UNCHANGED <<remote, bulkVars>>

\* a fetch whose completion also completes the other calls of the same kind
FetchResolveShared(s) ==
    LET call == calls[s]
        categories == filterNamed(remote)
        cache == buildCache(idCache, categories)
        value == CASE call.op = "categoriesGet" ->
                        categoriesGet(remote, call.parentId, call.keyword, call.page)
                   [] call.op = "categoryTreeGet" ->
                        categoryTreeGet(remote, call.parentId)
                   [] call.op = "getCategoryUrl" ->
                        lookupUrl(cache, call.categoryId)
    IN /\ call.pc = "await"
       /\ idCache' = cache
       /\ built' = categories
       /\ last' = [call |-> ArgsOf(call), fetched |-> TRUE,
                   response |-> [ok |-> TRUE, forest |-> remote],
                   status |-> "resolved", value |-> value]
       /\ calls' = [t \in Slots |->
                      IF t = s \/ (calls[t].pc = "await" /\ calls[t].op = call.op)
                      THEN Idle ELSE calls[t]]
       /\ UNCHANGED <<remote, bulkVars>>

\* the Remote Client resolves the fetch of call s with the forest; the rest
\* of fetchCategories and of the calling operation runs to its end
FetchResolve(s) ==
    LET call == calls[s]
        categories == filterNamed(remote)
        cache == buildCache(idCache, categories)
        value == CASE call.op = "categoriesGet" ->
                        categoriesGet(remote, call.parentId, call.keyword, call.page)
                   [] call.op = "categoryTreeGet" ->
                        categoryTreeGet(remote, call.parentId)
                   [] call.op = "getCategoryUrl" ->
                        lookupUrl(cache, call.categoryId)
    IN /\ call.pc = "await"
       /\ idCache' = cache
       /\ built' = categories
       /\ last' = [call |-> ArgsOf(call), fetched |-> TRUE,
                   response |-> [ok |-> TRUE, forest |-> remote],
                   status |-> "resolved", value |-> value]
       /\ calls' = [calls EXCEPT ![s] = Idle]
       /\ UNCHANGED <<remote, bulkVars>>

\* a failed fetch that is swallowed: the cache is reset and the call resolves
FetchRejectSwallowed(s, error) ==
    LET call == calls[s]
    IN /\ call.pc = "await"
       /\ last' = [call |-> ArgsOf(call), fetched |-> TRUE,
                   response |-> [ok |-> FALSE, error |-> error],
                   status |-> "resolved", value |-> null]
       /\ calls' = [calls EXCEPT ![s] = Idle]
       /\ idCache' = EmptyMap
       /\ UNCHANGED <<remote, built, bulkVars>>

\* the Remote Client rejects the fetch of call s: fetchCategories throws at
\* its await, and so does the operation that awaits it
FetchReject(s, error) ==
    LET call == calls[s]
    IN /\ call.pc = "await"
       /\ last' = [call |-> ArgsOf(call), fetched |-> TRUE,
                   response |-> [ok |-> FALSE, error |-> error],
                   status |-> "rejected", error |-> error]
       /\ calls' = [calls EXCEPT ![s] = Idle]
       /\ UNCHANGED <<remote, idCache, built, bulkVars>>

\* the remote platform drops its last top-level category
RemoteDelete ==
    /\ remote # <<>>
    /\ remote' = SubSeq(remote, 1, Len(remote) - 1)
    /\ UNCHANGED <<idCache, calls, last, built, bulkVars>>

\* The category service, one call at a time
RemoteForests == UNION { ForestsOfSize(n, Labels) : n \in 0..MaxRemote }

Init == InitCat(RemoteForests)

Next ==
    \/ \E parentId \in ParentIds, keyword \in Keywords : CategoriesGetStart({1}, parentId, keyword, 1)
    \/ \E parentId \in ParentIds : CategoryTreeGetStart({1}, parentId)
    \/ \E categoryId \in Keys : GetCategoryUrlStart({1}, categoryId)
    \/ FetchResolve(1)
    \/ \E error \in Errors : FetchReject(1, error)
    \/ RemoteDelete

Spec == Init /\ [][Next]_vars

(***************************************************************************)
(* The category service with overlapping calls, over the forests of at     *)
(* most one category                                                       *)
(***************************************************************************)
SmallForests == ForestsOfSize(0, Labels) \cup ForestsOfSize(1, Labels)

InitUrl == InitCat(SmallForests)

NextUrl ==
    \/ \E categoryId \in Keys : GetCategoryUrlStart(Slots, categoryId)
    \/ CategoriesGetStart(Slots, NoParent, <<>>, 1)
    \/ \E s \in Slots : FetchResolve(s)
    \/ \E s \in Slots, error \in Errors : FetchReject(s, error)
    \/ RemoteDelete

SpecUrl == InitUrl /\ [][NextUrl]_vars

(***************************************************************************)
(* categoriesGet over wide forests: a flat forest of n named categories    *)
(***************************************************************************)
WideIds == << "c01", "c02", "c03", "c04", "c05", "c06", "c07", "c08", "c09", "c10",
           "c11", "c12", "c13", "c14", "c15", "c16", "c17", "c18", "c19", "c20",
           "c21", "c22", "c23", "c24", "c25", "c26", "c27", "c28", "c29", "c30",
           "c31", "c32", "c33", "c34", "c35", "c36", "c37", "c38", "c39", "c40",
           "c41", "c42", "c43", "c44", "c45" >>
WideUrls == << "/c01", "/c02", "/c03", "/c04", "/c05", "/c06", "/c07", "/c08",
            "/c09", "/c10", "/c11", "/c12", "/c13", "/c14", "/c15", "/c16",
            "/c17", "/c18", "/c19", "/c20", "/c21", "/c22", "/c23", "/c24",
            "/c25", "/c26", "/c27", "/c28", "/c29", "/c30", "/c31", "/c32",
            "/c33", "/c34", "/c35", "/c36", "/c37", "/c38", "/c39", "/c40",
            "/c41", "/c42", "/c43", "/c44", "/c45" >>
WideNames == << <<"S", "h">>, <<"s", "H", "o">>, <<"S", "o">> >>
WideForest(n) ==
    [i \in 1..n |-> [id |-> WideIds[i], url |-> WideUrls[i],
                     name |-> WideNames[(i % 3) + 1], subcategories |-> <<>>]]
WideForests == { WideForest(n) : n \in 0..MaxWide }
PageKeywords == {<<>>, <<"S", "h">>}

InitPage == InitCat(WideForests)

NextPage ==
    \/ \E keyword \in PageKeywords, page \in 1..MaxPage :
          CategoriesGetStart({1}, NoParent, keyword, page)
    \/ FetchResolve(1)
    \/ \E error \in Errors : FetchReject(1, error)

SpecPage == InitPage /\ [][NextPage]_vars

(***************************************************************************)
(* The functions of the category tree, applied to a forest                 *)
(***************************************************************************)
Forests == UNION { ForestsOfSize(n, Labels) : n \in 0..MaxNodes }

Applied(call, value) ==
    [call |-> call, fetched |-> FALSE, status |-> "resolved", value |-> value]

GetCategoryListApply ==
    /\ last' = Applied([op |-> "getCategoryList"], Arr(getCategoryList(remote)))
    /\ UNCHANGED <<remote, idCache, calls, built, bulkVars>>

CountCategoriesApply ==
    /\ last' = Applied([op |-> "countCategories"],
                       [tree |-> Arr(buildCategoryTree(remote)),
                        count |-> Num(countCategories(buildCategoryTree(remote)))])
    /\ UNCHANGED <<remote, idCache, calls, built, bulkVars>>

GetRelevantCategoriesApply(parentId, getTree) ==
    /\ last' = Applied([op |-> "getRelevantCategories", parentId |-> parentId,
                        getTree |-> getTree],
                       getRelevantCategories(remote, parentId, getTree))
    /\ UNCHANGED <<remote, idCache, calls, built, bulkVars>>

\* categoriesGet without keyword and categoryTreeGet, answered from the same
\* forest
TotalsApply(parentId) ==
    /\ last' = Applied([op |-> "totals", parentId |-> parentId],
                       [list |-> categoriesGet(remote, parentId, <<>>, 1),
                        tree |-> categoryTreeGet(remote, parentId)])
    /\ UNCHANGED <<remote, idCache, calls, built, bulkVars>>

InitTree == InitCat(Forests)

NextTree ==
    \/ GetCategoryListApply
    \/ CountCategoriesApply
    \/ \E parentId \in ParentIds, getTree \in BOOLEAN :
          GetRelevantCategoriesApply(parentId, getTree)
    \/ \E parentId \in ParentIds : TotalsApply(parentId)

SpecTree == InitTree /\ [][NextTree]_vars

(***************************************************************************)
(* Remote Client: the response error interceptor of createClient           *)
(***************************************************************************)
\* What the transport delivers for one request.
Ok(data) == [kind |-> "2xx", status |-> 200, data |-> data]
UnknownIdentifier ==
    [kind |-> "error", status |-> 400, message |-> "Request failed",
     data |-> [errors |-> <<[type |-> "UnknownIdentifierError"]>>]]
ServerError ==
    [kind |-> "error", status |-> 500, message |-> "Request failed",
     data |-> [errors |-> <<[type |-> "InternalError"]>>]]
NotFound ==
    [kind |-> "error", status |-> 404, message |-> "Request failed",
     data |-> [errors |-> <<>>]]
NoResponse == [kind |-> "noResponse", message |-> "timeout"]
\* an error response whose body has no errors array
NoErrorsBody ==
    [kind |-> "error", status |-> 502, message |-> "Request failed",
     data |-> [message |-> "Bad Gateway"]]
\* an error response without a body
EmptyBody == [kind |-> "error", status |-> 503, message |-> "Request failed"]
InvalidGrant ==
    [kind |-> "error", status |-> 400, message |-> "Request failed",
     data |-> [error |-> "invalid_grant", error_description |-> "Bad credentials"]]
Failures == {UnknownIdentifier, ServerError, NotFound, NoResponse,
             NoErrorsBody, EmptyBody, InvalidGrant}
\* the failures of a per-identifier lookup
LookupFailures == {UnknownIdentifier, ServerError, NoErrorsBody}
\* reading [0] of undefined throws
TypeError == [name |-> "TypeError"]

\* the promise of a client call: fulfilled with {data, status} or rejected
Fulfilled(value) == [st |-> "fulfilled", value |-> value]
Rejected(reason) == [st |-> "rejected", reason |-> reason]
Pending == [st |-> "pending"]

interceptorNoPassThrough(raw) ==
    IF raw.kind = "2xx" THEN Fulfilled([data |-> raw.data, status |-> raw.status])
    ELSE IF raw.kind = "noResponse"
         THEN Rejected([error |-> TRUE, data |-> Str(raw.message), status |-> 500])
         ELSE IF "data" \notin DOMAIN raw
              THEN Rejected([error |-> TRUE, data |-> Str(raw.message), status |-> raw.status])
              ELSE IF "error" \in DOMAIN raw.data /\ raw.data.error = "invalid_grant"
                   THEN Rejected([error |-> TRUE, data |-> Str(raw.data.error_description),
                                  status |-> 401])
                   ELSE IF "errors" \notin DOMAIN raw.data THEN Rejected(TypeError)
                        ELSE Rejected([error |-> TRUE, data |-> raw.data, status |-> raw.status])

\* error-mapper's mapErrors is applied to the response before the rejection;
\* it leaves the shape of the rejection as it is
interceptor(raw) ==
    IF raw.kind = "2xx" THEN Fulfilled([data |-> raw.data, status |-> raw.status])
    ELSE IF raw.kind = "noResponse"
         THEN Rejected([error |-> TRUE, data |-> Str(raw.message), status |-> 500])
         ELSE IF "data" \notin DOMAIN raw
              THEN Rejected([error |-> TRUE, data |-> Str(raw.message), status |-> raw.status])
              ELSE IF "error" \in DOMAIN raw.data /\ raw.data.error = "invalid_grant"
                   THEN Rejected([error |-> TRUE, data |-> Str(raw.data.error_description),
                                  status |-> 401])
                   ELSE IF "errors" \notin DOMAIN raw.data THEN Rejected(TypeError)
                        ELSE IF Len(raw.data.errors) > 0
                                /\ raw.data.errors[1].type = "UnknownIdentifierError"
                             THEN Fulfilled([data |-> raw.data, status |-> raw.status])
                             ELSE Rejected([error |-> TRUE, data |-> raw.data,
                                            status |-> raw.status])

(***************************************************************************)
(* Bulk resolve by identifiers and search: categories, products, content   *)
(* pages                                                                   *)
(***************************************************************************)
BulkIds == {"p", "q"}
IdLists == UNION { [1..n -> BulkIds] : n \in 0..MaxIds }
LenientOps == {"categoriesCategoryIdsGet", "productsProductIdsGet"}
StrictOps == {"contentPagesContentIdsGet"}
BulkOps == LenientOps \cup StrictOps
SearchOps == {"productsGet", "contentPagesGet"}

\* the entity the remote platform holds for an identifier
Entity(op, id) ==
    CASE op = "categoriesCategoryIdsGet" -> [id |-> id, name |-> "N"]
      [] op = "productsProductIdsGet" ->
            [code |-> id, name |-> "N", url |-> "/u",
             images |-> <<[format |-> "thumbnail", url |-> "/t"],
                          [format |-> "product", url |-> "/i"]>>]
      [] op = "contentPagesContentIdsGet" -> [uuid |-> id, name |-> "N", label |-> "/l"]

joinedInCompletionOrder(promises, settled) ==
    [k \in 1..Len(promises) |-> promises[settled[k]].value]

\* Promise.all: the values in the order of the promises
joined(promises, settled) == [i \in 1..Len(promises) |-> promises[i].value]

HasErrors(x) == "errors" \in DOMAIN x

categoriesCategoryIdsGetNoReject(values, hasErr, lastErr) ==
    LET kept == SelectSeq(values, LAMBDA category : ~HasErrors(category))
        categories == [i \in 1..Len(kept) |->
                          [id |-> Field(kept[i], "id"), label |-> Field(kept[i], "name")]]
    IN [status |-> "resolved",
        value |-> [categories |-> Arr(categories), total |-> Num(Len(categories)),
                   hasNext |-> Bool(FALSE)]]

\* fetchCategoriesByIds and categoriesCategoryIdsGet after Promise.all
categoriesCategoryIdsGet(values, hasErr, lastErr) ==
    IF hasErr THEN [status |-> "rejected", error |-> lastErr]
    ELSE LET kept == SelectSeq(values, LAMBDA category : ~HasErrors(category))
             categories == [i \in 1..Len(kept) |->
                               [id |-> Field(kept[i], "id"), label |-> Field(kept[i], "name")]]
         IN [status |-> "resolved",
             value |-> [categories |-> Arr(categories), total |-> Num(Len(categories)),
                        hasNext |-> Bool(FALSE)]]

\* images.reduce((map, { format, url }) => Object.assign(map, { [format]: MEDIA_CDN_URL + url }), {})
MEDIA_CDN_URL == "https://media"
imageOf(images, format) ==
    LET hits == SelectSeq(images, LAMBDA image : image.format = format)
    IN IF hits = <<>> THEN undefined ELSE Str(<<MEDIA_CDN_URL, hits[Len(hits)].url>>)

\* the products of fetchProducts in the shape of the bridge
productShape(products) ==
    [i \in 1..Len(products) |->
        LET product == products[i]
            images == IF "images" \in DOMAIN product THEN product.images ELSE <<>>
        IN [id |-> Field(product, "code"), label |-> Field(product, "name"),
            extract |-> Field(product, "url"),
            thumbnail |-> imageOf(images, "thumbnail"), image |-> imageOf(images, "product")]]

\* fetchProducts and productsProductIdsGet after Promise.all
productsProductIdsGet(values, hasErr, errorMessage) ==
    IF hasErr THEN [status |-> "rejected", error |-> [shopError |-> TRUE, message |-> errorMessage]]
    ELSE LET kept == SelectSeq(values, LAMBDA product : ~HasErrors(product))
             products == productShape(kept)
         IN [status |-> "resolved",
             value |-> [products |-> Arr(products), total |-> Num(Len(products)),
                        hasNext |-> Bool(FALSE)]]

createContentPageResponseBody(page) ==
    [id |-> Field(page, "uuid"), label |-> Field(page, "name"), extract |-> Field(page, "label")]

\* fetchContentPages and contentPagesContentIdsGet after Promise.all resolved
contentPagesContentIdsGet(values) ==
    LET bodies == [i \in 1..Len(values) |-> createContentPageResponseBody(values[i])]
        pages == SelectSeq(bodies, LAMBDA page : TruthyValue(page.id))
    IN [status |-> "resolved",
        value |-> [contentPages |-> Arr(pages), total |-> Num(Len(pages)),
                   hasNext |-> Bool(FALSE)]]

contentPagesPromiseAllLastError(before, promises, settled, i) ==
    IF promises[i].st = "rejected"
    THEN [status |-> "rejected", error |-> promises[i].reason]
    ELSE IF before.status # "pending" THEN before
         ELSE IF \A j \in 1..Len(promises) : promises[j].st = "fulfilled"
              THEN contentPagesContentIdsGet(joined(promises, settled))
              ELSE before

\* Promise.all of the content page fetches once fetch i has settled: it is
\* rejected with the first rejection, fulfilled when all are fulfilled
contentPagesPromiseAll(before, promises, settled, i) ==
    IF before.status # "pending" THEN before
    ELSE IF promises[i].st = "rejected"
         THEN [status |-> "rejected", error |-> promises[i].reason]
         ELSE IF \A j \in 1..Len(promises) : promises[j].st = "fulfilled"
              THEN contentPagesContentIdsGet(joined(promises, settled))
              ELSE before

\* a join that reports the failure that settled first
lenientJoinFirstError(op, promises, settled, hasErr, lastErr) ==
    LET failures == SelectSeq(settled, LAMBDA i : promises[i].get = "rejected")
        reason == promises[failures[1]].call.reason
        firstErr == IF ~hasErr THEN lastErr
                    ELSE IF op = "categoriesCategoryIdsGet" THEN reason
                    ELSE IF "data" \in DOMAIN reason THEN reason.data ELSE undefined
    IN IF op = "categoriesCategoryIdsGet"
       THEN categoriesCategoryIdsGet(joined(promises, settled), hasErr, firstErr)
       ELSE productsProductIdsGet(joined(promises, settled), hasErr, firstErr)

\* the operation once all the fetches of a lenient resolver have settled
lenientJoin(op, promises, settled, hasErr, lastErr) ==
    IF op = "categoriesCategoryIdsGet"
    THEN categoriesCategoryIdsGet(joined(promises, settled), hasErr, lastErr)
    ELSE productsProductIdsGet(joined(promises, settled), hasErr, lastErr)

EntityResponses == { Ok(Entity(op, id)) : op \in BulkOps, id \in BulkIds }
PendingOutcome == [status |-> "pending"]
NoFetchPending == \A i \in 1..Len(fetches) : fetches[i].st # "pending"

BulkStart(op, ids) ==
    /\ NoFetchPending
    /\ bOp' = [op |-> op, ids |-> ids]
    /\ fetches' = [i \in 1..Len(ids) |-> Pending]
    /\ hasError' = FALSE
    /\ lastError' = undefined
    /\ order' = <<>>
    /\ outcome' = IF ids # <<>> THEN PendingOutcome
                  ELSE IF op \in StrictOps THEN contentPagesContentIdsGet(<<>>)
                  ELSE lenientJoin(op, <<>>, <<>>, FALSE, undefined)
    /\ UNCHANGED <<catVars>>

\* the error a lenient resolver keeps: the error (categories), error.data (products)
kept(op, reason) ==
    IF op = "categoriesCategoryIdsGet" THEN reason
    ELSE IF "data" \in DOMAIN reason THEN reason.data ELSE undefined

\* the Remote Client call of position i settles, with the entity or a failure
BulkSettle(i, raw) ==
    LET op == bOp.op
        result == interceptor(raw)
        failed == result.st = "rejected"
        settled == Append(order, i)
    IN /\ op \in BulkOps
       /\ i \in 1..Len(fetches)
       /\ fetches[i].st = "pending"
       /\ raw \in {Ok(Entity(op, bOp.ids[i]))} \cup LookupFailures
       /\ order' = settled
       /\ IF op \in LenientOps
          THEN LET mapped == IF failed THEN Fulfilled([errors |-> TRUE])
                                       ELSE Fulfilled(result.value.data)
                   promises == [fetches EXCEPT ![i] = mapped @@ [get |-> result.st, raw |-> raw, call |-> result]]
                   hasErr == hasError \/ failed
                   lastErr == IF failed THEN kept(op, result.reason) ELSE lastError
               IN /\ fetches' = promises
                  /\ hasError' = hasErr
                  /\ lastError' = lastErr
                  /\ outcome' = IF \A j \in 1..Len(promises) : promises[j].st # "pending"
                                THEN lenientJoin(op, promises, settled, hasErr, lastErr)
                                ELSE outcome
          ELSE LET mapped == IF failed THEN result ELSE Fulfilled(result.value.data)
                   promises == [fetches EXCEPT ![i] = mapped @@ [get |-> result.st, raw |-> raw, call |-> result]]
               IN /\ fetches' = promises
                  /\ outcome' = contentPagesPromiseAll(outcome, promises, settled, i)
                  /\ UNCHANGED <<hasError, lastError>>
       /\ UNCHANGED <<bOp, catVars>>

\* the search responses of the remote platform
ProductSearchData ==
    { [products |-> <<Entity("productsProductIdsGet", "p")>>,
       pagination |-> [totalResults |-> 21, totalPages |-> 2]],
      [pagination |-> [totalResults |-> 0, totalPages |-> 0]],
      [products |-> <<Entity("productsProductIdsGet", "p")>>],
      [type |-> "productSearchPage"] }
ContentSearchData ==
    { [response |-> <<Entity("contentPagesContentIdsGet", "p")>>,
       pagination |-> [totalCount |-> 21]],
      [response |-> <<>>, pagination |-> [totalCount |-> 0]],
      [response |-> <<Entity("contentPagesContentIdsGet", "p")>>],
      [type |-> "cmsItemSearchResult"] }

\* fetchProducts without productIds and productsGet, from the response on
productsGet(data, page) ==
    LET products == IF "products" \in DOMAIN data THEN data.products ELSE <<>>
        total == IF "pagination" \in DOMAIN data /\ data.pagination.totalResults # 0
                 THEN data.pagination.totalResults ELSE 0
        hasNext == IF "pagination" \in DOMAIN data
                   THEN page < data.pagination.totalPages ELSE FALSE
    IN [status |-> "resolved",
        value |-> [products |-> Arr(productShape(products)), total |-> Num(total),
                   hasNext |-> Bool(hasNext)]]

\* fetchContentPages without contentIds and contentPagesGet, from the response on
contentPagesGet(data, page) ==
    LET pageSize == 20
        pages == IF "response" \in DOMAIN data
                 THEN Arr([i \in 1..Len(data.response) |->
                              createContentPageResponseBody(data.response[i])])
                 ELSE undefined
        total == IF "pagination" \in DOMAIN data THEN Num(data.pagination.totalCount)
                 ELSE undefined
        hasNext == IF "pagination" \in DOMAIN data
                   THEN data.pagination.totalCount > page * pageSize ELSE FALSE
    IN [status |-> "resolved",
        value |-> [contentPages |-> pages, total |-> total, hasNext |-> Bool(hasNext)]]

SearchStart(op, page) ==
    /\ NoFetchPending
    /\ bOp' = [op |-> op, page |-> page]
    /\ fetches' = <<Pending>>
    /\ hasError' = FALSE
    /\ lastError' = undefined
    /\ order' = <<>>
    /\ outcome' = PendingOutcome
    /\ UNCHANGED <<catVars>>

\* the search request settles: with a page of results, or with a failure
SearchSettle(raw) ==
    LET op == bOp.op
        result == interceptor(raw)
    IN /\ op \in SearchOps
       /\ fetches[1].st = "pending"
       /\ raw \in { Ok(data) : data \in IF op = "productsGet" THEN ProductSearchData
                                                              ELSE ContentSearchData }
                  \cup (Failures \ {UnknownIdentifier})
       /\ fetches' = <<result @@ [get |-> result.st, raw |-> raw, call |-> result]>>
       /\ order' = <<1>>
       /\ outcome' = IF result.st = "rejected"
                     THEN [status |-> "rejected", error |-> result.reason]
                     ELSE IF op = "productsGet" THEN productsGet(result.value.data, bOp.page)
                          ELSE contentPagesGet(result.value.data, bOp.page)
       /\ UNCHANGED <<bOp, hasError, lastError, catVars>>

InitBulkSpec ==
    /\ remote = <<>>
    /\ idCache = EmptyMap
    /\ calls = [s \in Slots |-> Idle]
    /\ last = NoCall
    /\ built = <<>>
    /\ InitBulk

NextBulk ==
    \/ \E op \in BulkOps, ids \in IdLists : BulkStart(op, ids)
    \/ \E i \in 1..MaxIds, raw \in EntityResponses \cup LookupFailures : BulkSettle(i, raw)
    \/ \E op \in SearchOps, page \in 1..2 : SearchStart(op, page)
    \/ \E raw \in { Ok(data) : data \in ProductSearchData \cup ContentSearchData }
                  \cup Failures : SearchSettle(raw)

SpecBulk == InitBulkSpec /\ [][NextBulk]_vars

(***************************************************************************)
(* Content page create and update                                          *)
(***************************************************************************)
\* the template mapping table the tests install
FStoSAPTemplateMapping == [contentpage |-> "resultTemplate"]
Templates == {"contentpage", "landingpage"}
Langs == {<<"E", "N">>, <<"d", "e">>}
ContentIds == {"123", "456"}
\* request bodies of the bridge, with and without the visible property
Payloads ==
    [template : Templates, label : {"/l", "/m"}, visible : BOOLEAN]
        \cup [template : Templates, label : {"/l", "/m"}]
WriteOps == {"contentPagesPost", "contentPagesContentIdPut"}

createContentPageRequestBodyMixed(requestBody, lang, uuid) ==
    LET visible == "visible" \in DOMAIN requestBody /\ requestBody.visible
    IN [uuid |-> uuid,
        uid |-> Field(requestBody, "label"),
        itemtype |-> "ContentPage",
        masterTemplate |-> Field(requestBody, "template"),
        approvalStatus |-> IF visible THEN "APPROVED" ELSE "UNAPPROVED",
        pageStatus |-> IF "visible" \in DOMAIN requestBody THEN "ACTIVE" ELSE "DELETED",
        defaultPage |-> TRUE,
        homepage |-> FALSE,
        label |-> Field(requestBody, "label"),
        name |-> Field(requestBody, "label"),
        title |-> [key |-> toLowerCase(lang), value |-> Field(requestBody, "label")]]

createContentPageRequestBody(requestBody, lang, uuid) ==
    LET visible == "visible" \in DOMAIN requestBody /\ requestBody.visible
    IN [uuid |-> uuid,
        uid |-> Field(requestBody, "label"),
        itemtype |-> "ContentPage",
        masterTemplate |-> Field(requestBody, "template"),
        approvalStatus |-> IF visible THEN "APPROVED" ELSE "UNAPPROVED",
        pageStatus |-> IF visible THEN "ACTIVE" ELSE "DELETED",
        defaultPage |-> TRUE,
        homepage |-> FALSE,
        label |-> Field(requestBody, "label"),
        name |-> Field(requestBody, "label"),
        title |-> [key |-> toLowerCase(lang), value |-> Field(requestBody, "label")]]

\* contentPagesPost up to the await of the post
ContentPagesPost(payload, lang) ==
    /\ NoFetchPending
    /\ bOp' = [op |-> "contentPagesPost", payload |-> payload, lang |-> lang,
               request |-> [method |-> "post", path |-> <<"/cmsitems">>,
                            body |-> createContentPageRequestBody(payload, lang, undefined)]]
    /\ fetches' = <<Pending>>
    /\ hasError' = FALSE
    /\ lastError' = undefined
    /\ order' = <<>>
    /\ outcome' = PendingOutcome
    /\ UNCHANGED catVars

\* contentPagesContentIdPut up to the await of the put
ContentPagesContentIdPut(payload, lang, contentId) ==
    /\ NoFetchPending
    /\ bOp' = [op |-> "contentPagesContentIdPut", payload |-> payload, lang |-> lang,
               contentId |-> contentId,
               request |-> [method |-> "put", path |-> <<"/cmsitems/", contentId>>,
                            body |-> createContentPageRequestBody(payload, lang, Str(contentId))]]
    /\ fetches' = <<Pending>>
    /\ hasError' = FALSE
    /\ lastError' = undefined
    /\ order' = <<>>
    /\ outcome' = PendingOutcome
    /\ UNCHANGED catVars

\* the answers of the remote platform to a create or an update
WriteData == { [uuid |-> id] : id \in ContentIds } \cup { [message |-> "accepted"] }

\* the post or put settles: data.uuid ? {id: data.uuid} : data
WriteSettle(raw) ==
    LET result == interceptor(raw)
    IN /\ bOp.op \in WriteOps
       /\ fetches[1].st = "pending"
       /\ raw \in { Ok(data) : data \in WriteData } \cup (Failures \ {UnknownIdentifier})
       /\ fetches' = <<result @@ [get |-> result.st, raw |-> raw, call |-> result]>>
       /\ order' = <<1>>
       /\ outcome' = IF result.st = "rejected"
                     THEN [status |-> "rejected", error |-> result.reason]
                     ELSE LET data == result.value.data
                          IN [status |-> "resolved",
                              value |-> IF "uuid" \in DOMAIN data THEN [id |-> Str(data.uuid)]
                                        ELSE data]
       /\ UNCHANGED <<bOp, hasError, lastError, catVars>>

NextWrite ==
    \/ \E payload \in Payloads, lang \in Langs : ContentPagesPost(payload, lang)
    \/ \E payload \in Payloads, lang \in Langs, contentId \in ContentIds :
          ContentPagesContentIdPut(payload, lang, contentId)
    \/ \E raw \in { Ok(data) : data \in WriteData } \cup Failures : WriteSettle(raw)

SpecWrite == InitBulkSpec /\ [][NextWrite]_vars

(***************************************************************************)
(* Properties of the category cache                                        *)
(***************************************************************************)
Completed(op) == last.status # "none" /\ last.call.op = op
Resolved(op) == Completed(op) /\ last.status = "resolved"
Fetched(op) == Resolved(op) /\ last.fetched

\* no two categories share an id or a url, and no id is another one's url
CollisionFree(nodes) ==
    \A i, j \in 1..Len(nodes) :
        i # j => /\ nodes[i].id # nodes[j].id
                 /\ nodes[i].url # nodes[j].url
                 /\ nodes[i].id # nodes[j].url

Maps(cache, k, v) == k \in DOMAIN cache /\ cache[k] = v

DistinctIds(nodes) == \A i, j \in 1..Len(nodes) : i # j => nodes[i].id # nodes[j].id

\* C4 as stated: in every reachable state the cache maps c.id to c.url and
\* c.url to c.id for every category c, at any depth, of the forest that was
\* cached last (its categories have distinct ids), also when two categories
\* share a url or a category's id equals another category's url.
C4_AnyForestConsistent ==
    DistinctIds(Nodes(built)) =>
        \A c \in Range(Nodes(built)) : Maps(idCache, c.id, c.url) /\ Maps(idCache, c.url, c.id)

\* C4 amended: when, in the forest cached last, no two categories share an id
\* or a url and no category's id is another category's url, the cache maps
\* c.id to c.url and c.url to c.id for every category c of it at any depth,
\* whatever earlier fetches left in the cache; and getCategoryUrl(c.id)
\* returns c.url.
C4_BidirectionalConsistency ==
    CollisionFree(Nodes(built)) =>
        /\ \A c \in Range(Nodes(built)) : Maps(idCache, c.id, c.url) /\ Maps(idCache, c.url, c.id)
        /\ Resolved("getCategoryUrl") =>
              \A c \in Range(Nodes(built)) :
                  /\ last.call.categoryId = c.id => last.value = [url |-> c.url]
                  /\ last.call.categoryId = c.url => last.value = [url |-> c.id]

\* a nested category of a collision-free forest was looked up by its id
C4_Witness ==
    /\ Len(built) = 1 /\ Len(built[1].subcategories) = 1
    /\ CollisionFree(Nodes(built))
    /\ Resolved("getCategoryUrl")
    /\ last.call.categoryId = built[1].subcategories[1].id
    /\ last.value = [url |-> built[1].subcategories[1].url]

\* C6 as stated: after a successful full fetch, whatever triggered it, every
\* category at every depth of the fetched forest has its id and its url as
\* keys of the cache.
C6_WholeForestCached ==
    (last.status = "resolved" /\ last.fetched) =>
        \A c \in Range(Nodes(last.response.forest)) :
            c.id \in DOMAIN idCache /\ c.url \in DOMAIN idCache

\* C6 amended: after a successful full fetch, whatever triggered it and with
\* whatever parentId or keyword, every category at every depth below a
\* top-level category that has a name has its id and its url as keys of the
\* cache (mapped to its url and id when the ids and urls do not collide), not
\* only the categories of the subtree returned; top-level categories without
\* a name are left out with all their subcategories.
C6_NamedForestCached ==
    (last.status = "resolved" /\ last.fetched) =>
        LET nodes == Nodes(filterNamed(last.response.forest))
        IN /\ \A c \in Range(nodes) : c.id \in DOMAIN idCache /\ c.url \in DOMAIN idCache
           /\ CollisionFree(nodes) =>
                 \A c \in Range(nodes) : Maps(idCache, c.id, c.url) /\ Maps(idCache, c.url, c.id)

\* a subtree was requested and a category outside the returned list is cached
C6_Witness ==
    /\ Fetched("categoriesGet")
    /\ last.call.parentId # NoParent
    /\ Len(last.value.categories.v) = 1
    /\ \E c \in Range(Nodes(filterNamed(last.response.forest))) :
          /\ \A item \in Range(last.value.categories.v) : item.id # c.id
          /\ c.id \in DOMAIN idCache

\* C7: a getCategoryUrl call whose identifier is absent from the cache (after
\* its fetch, if it made one, succeeded) resolves with null; a call whose fetch
\* succeeded, or that made none, is never rejected; a call whose fetch failed
\* is rejected with the error of the fetch, and that step leaves the cache as
\* it was.
C7_NotFoundIsNull ==
    Completed("getCategoryUrl") =>
        /\ (last.fetched /\ ~last.response.ok) =>
              last.status = "rejected" /\ last.error = last.response.error
        /\ (~last.fetched \/ last.response.ok) =>
              /\ last.status = "resolved"
              /\ last.call.categoryId \notin DOMAIN idCache => last.value = null
              /\ last.call.categoryId \in DOMAIN idCache =>
                    last.value = [url |-> idCache[last.call.categoryId]]
C7_FailureKeepsCache ==
    (last'.status = "rejected" /\ last' # last) => idCache' = idCache
C7_NotFoundVersusFailure == [] C7_NotFoundIsNull /\ [][C7_FailureKeepsCache]_vars

\* a fetch was triggered and succeeded, and the identifier is not in the cache
C7_Witness ==
    /\ Fetched("getCategoryUrl")
    /\ idCache # EmptyMap
    /\ last.call.categoryId \notin DOMAIN idCache
    /\ last.value = null

RECURSIVE TreeNodes(_)
TreeNodes(tree) ==
    IF tree = <<>> THEN <<>>
    ELSE IF Len(tree) = 1
         THEN <<tree[1]>>
              \o (IF "children" \in DOMAIN tree[1] THEN TreeNodes(tree[1].children) ELSE <<>>)
         ELSE TreeNodes(FirstHalf(tree)) \o TreeNodes(SecondHalf(tree))

\* C8: a category without a name, at any depth of the fetched forest, is in
\* neither the flat list of categoriesGet, nor the tree of categoryTreeGet, nor
\* among the categories written to the id/url cache.
C8_NamelessExcluded ==
    /\ \A c \in Range(Nodes(built)) : Truthy(c.name)
    /\ Fetched("categoriesGet") =>
          \A item \in Range(last.value.categories.v) : Truthy(item.label)
    /\ Fetched("categoryTreeGet") =>
          \A node \in Range(TreeNodes(last.value.categorytree.v)) : Truthy(node.label)

(***************************************************************************)
(* Properties of getCategoryUrl under overlapping calls                    *)
(***************************************************************************)
IssuesUrlFetch ==
    \E s \in Slots : /\ calls[s].pc = "idle"
                     /\ calls'[s].pc = "await"
                     /\ calls'[s].op = "getCategoryUrl"
AnswersFromCache ==
    /\ last' # last
    /\ last'.call.op = "getCategoryUrl"
    /\ ~last'.fetched

\* C5: a getCategoryUrl call issues a full category fetch exactly when the
\* cache is empty as the call starts: a call that starts on an empty cache is
\* not answered without a fetch, a call that starts on a non-empty cache
\* issues none and is answered in that step from the cache; and a non-empty
\* cache never becomes empty again.
C5_Step ==
    /\ IssuesUrlFetch => idCache = EmptyMap
    /\ AnswersFromCache =>
          /\ idCache # EmptyMap
          /\ calls' = calls /\ idCache' = idCache
          /\ last'.status = "resolved"
          /\ last'.call.categoryId \in DOMAIN idCache =>
                last'.value = [url |-> idCache[last'.call.categoryId]]
          /\ last'.call.categoryId \notin DOMAIN idCache => last'.value = null
    /\ idCache # EmptyMap => idCache' # EmptyMap
C5_CacheShortCircuit == [][C5_Step]_vars

\* an unknown identifier was answered from the cache while another call's
\* fetch was in flight
C5_Witness ==
    /\ Resolved("getCategoryUrl")
    /\ ~last.fetched
    /\ last.value = null
    /\ \E s \in Slots : calls[s].pc = "await"

(***************************************************************************)
(* Pagination of categoriesGet                                             *)
(***************************************************************************)
\* the keyword-filtered list of a flat forest of named categories
KeywordFiltered(forest, keyword) ==
    LET all == [i \in 1..Len(forest) |-> [id |-> forest[i].id, label |-> forest[i].name]]
        Keeps(item) == keyword = <<>> \/ includes(toLowerCase(item.label), toLowerCase(keyword))
    IN SelectSeq(all, Keeps)

\* C9: categoriesGet on page p of a keyword-filtered list of n categories
\* returns total = n, the elements of the list with the indices 20*(p-1) up to
\* but excluding 20*p, and hasNext = (20*p <= n), so that a page that ends
\* with the last element reports hasNext = true.
C9_Pagination ==
    Fetched("categoriesGet") =>
        LET list == KeywordFiltered(last.response.forest, last.call.keyword)
            n == Len(list)
            p == last.call.page
            from == 20 * (p - 1)
            count == IF n <= from THEN 0 ELSE Min(n, 20 * p) - from
            items == last.value.categories.v
        IN /\ last.value.total = Num(n)
           /\ last.value.hasNext = Bool(20 * p <= n)
           /\ Len(items) = count
           /\ \A k \in 1..count : items[k] = list[from + k]
           /\ (n = 25 /\ p = 1) => Len(items) = 20 /\ last.value.hasNext.v
           /\ (n = 25 /\ p = 2) => Len(items) = 5 /\ ~last.value.hasNext.v

\* the second page ends with the last of 40 categories and reports a next page
C9_Witness ==
    /\ Fetched("categoriesGet")
    /\ last.call.page = 2
    /\ last.value.total = Num(40)
    /\ Len(last.value.categories.v) = 20
    /\ last.value.hasNext = Bool(TRUE)

(***************************************************************************)
(* Properties of the bulk resolvers and of the result envelope             *)
(***************************************************************************)
N == Len(fetches)
AllSettled == \A i \in 1..N : fetches[i].st # "pending"
\* the Remote Client call of position i was rejected
Failed(i) == fetches[i].st # "pending" /\ fetches[i].get = "rejected"
\* the Remote Client call of position i delivered an entity
Delivered(i) ==
    /\ fetches[i].st = "fulfilled"
    /\ fetches[i].get = "fulfilled"
    /\ ~HasErrors(fetches[i].value)
FailedCount == Cardinality({ i \in 1..N : Failed(i) })
DeliveredCount == Cardinality({ i \in 1..N : Delivered(i) })
ItemsOf(value) ==
    CASE bOp.op = "categoriesCategoryIdsGet" -> value.categories
      [] bOp.op \in {"productsProductIdsGet", "productsGet"} -> value.products
      [] bOp.op \in {"contentPagesContentIdsGet", "contentPagesGet"} -> value.contentPages
ItemIds(value) == [k \in 1..Len(ItemsOf(value).v) |-> ItemsOf(value).v[k].id]
\* the identifiers of the delivered entities, in the order of the input list
DeliveredIds ==
    LET positions == SelectSeq([i \in 1..N |-> i], LAMBDA i : Delivered(i))
    IN [k \in 1..Len(positions) |-> Str(bOp.ids[positions[k]])]

\* C1 as stated: a lenient resolver whose N fetches have settled, k of them
\* failed, has completed successfully with the N-k fetched entities, total N-k
\* and hasNext false.
C1_FailuresDropped ==
    (bOp.op \in LenientOps /\ outcome.status # "pending") =>
        /\ outcome.status = "resolved"
        /\ Len(ItemsOf(outcome.value).v) = DeliveredCount
        /\ DeliveredCount + FailedCount <= N
        /\ outcome.value.total = Num(DeliveredCount)
        /\ outcome.value.hasNext = Bool(FALSE)

\* C1: a lenient resolver (categories, products) completes only when all N
\* fetches have settled; with no failed fetch it succeeds with the delivered
\* entities, total their count and hasNext false; with at least one failed
\* fetch it is rejected and returns no list.
C1_LenientResolve ==
    (bOp.op \in LenientOps /\ outcome.status # "pending") =>
        /\ AllSettled
        /\ IF FailedCount = 0
           THEN /\ outcome.status = "resolved"
                /\ ItemIds(outcome.value) = DeliveredIds
                /\ outcome.value.total = Num(DeliveredCount)
                /\ outcome.value.hasNext = Bool(FALSE)
           ELSE outcome.status = "rejected"

C1_Witness ==
    /\ bOp.op \in LenientOps
    /\ N = 3
    /\ AllSettled
    /\ FailedCount = 1
    /\ DeliveredCount = 2
    /\ outcome.status = "rejected"

\* the position of the rejected fetch that settled first
FirstRejected ==
    LET rejected == SelectSeq(order, LAMBDA i : fetches[i].st = "rejected")
    IN rejected[1]
AnyRejected == \E i \in 1..N : fetches[i].st = "rejected"

\* C2: the strict resolver (content pages) fails as soon as one fetch fails,
\* with the error of the fetch that failed first in completion order, and it
\* succeeds only when every fetch succeeded.
C2_StrictFirstError ==
    bOp.op \in StrictOps =>
        /\ AnyRejected =>
              /\ outcome.status = "rejected"
              /\ outcome.error = fetches[FirstRejected].reason
        /\ outcome.status = "resolved" =>
              /\ \A i \in 1..N : fetches[i].st = "fulfilled"
              /\ Len(ItemsOf(outcome.value).v) = DeliveredCount

C2_Witness ==
    /\ bOp.op \in StrictOps
    /\ \E i, j \in 1..N :
          /\ fetches[i].st = "rejected"
          /\ fetches[j].st = "rejected"
          /\ fetches[i].reason # fetches[j].reason
          /\ \E k \in 1..N : fetches[k].st = "fulfilled"
    /\ outcome.status = "rejected"

\* C3: whatever the order in which the fetches complete, the items of a
\* successful bulk resolve are the delivered entities in the order of their
\* identifiers in the input list.
C3_InputOrderPreserved ==
    (bOp.op \in BulkOps /\ outcome.status = "resolved") =>
        ItemIds(outcome.value) = DeliveredIds

C3_Witness ==
    /\ bOp.op \in BulkOps
    /\ outcome.status = "resolved"
    /\ Len(order) >= 2
    /\ order[1] > order[2]
    /\ Delivered(order[1])
    /\ Delivered(order[2])
    /\ bOp.ids[order[1]] # bOp.ids[order[2]]

\* C10 as stated: every successful list result carries an item list, a
\* numeric total and a boolean hasNext.
C10_EnvelopeComplete ==
    (bOp.op \in BulkOps \cup SearchOps /\ outcome.status = "resolved") =>
        /\ ItemsOf(outcome.value).type = "array"
        /\ outcome.value.total.type = "number"
        /\ outcome.value.hasNext.type = "boolean"

(***************************************************************************)
(* Properties of the Remote Client                                         *)
(***************************************************************************)
\* the transport's answer to the fetch of position i
Answer(i) == fetches[i].raw
Settled(i) == fetches[i].st # "pending"
IsUnknownIdentifier(raw) ==
    /\ raw.kind = "error"
    /\ "data" \in DOMAIN raw
    /\ "errors" \in DOMAIN raw.data
    /\ Len(raw.data.errors) > 0
    /\ raw.data.errors[1].type = "UnknownIdentifierError"
IsInvalidGrant(raw) ==
    /\ raw.kind = "error"
    /\ "data" \in DOMAIN raw
    /\ "error" \in DOMAIN raw.data
    /\ raw.data.error = "invalid_grant"
ClassifiedStatus(raw) ==
    IF raw.kind = "noResponse" THEN 500
    ELSE IF IsInvalidGrant(raw) THEN 401 ELSE raw.status

\* C11 as stated: every client call answered with a non-2xx response other
\* than the unknown-identifier one, or with no response, is rejected with
\* {error: true, data, status}, status as classified, whatever the body.
C11_ClassifiedRejection ==
    \A i \in 1..N :
        (Settled(i) /\ Answer(i).kind # "2xx" /\ ~IsUnknownIdentifier(Answer(i))) =>
            /\ fetches[i].call.st = "rejected"
            /\ DOMAIN fetches[i].call.reason = {"error", "data", "status"}
            /\ fetches[i].call.reason.error = TRUE
            /\ fetches[i].call.reason.status = ClassifiedStatus(Answer(i))

\* C12: an UnknownIdentifierError answer is passed through by the client as a
\* success, and a bulk resolve whose lookups were all answered with an entity
\* or with UnknownIdentifierError completes successfully with exactly the
\* answered entities as items, in input order, and total their number.
C12_UnknownIdentifierIgnored ==
    /\ \A i \in 1..N :
          (Settled(i) /\ IsUnknownIdentifier(Answer(i))) => fetches[i].call.st = "fulfilled"
    /\ (/\ bOp.op \in BulkOps
        /\ AllSettled
        /\ \A i \in 1..N : Answer(i).kind = "2xx" \/ IsUnknownIdentifier(Answer(i))) =>
           LET answered == SelectSeq([i \in 1..N |-> i], LAMBDA i : Answer(i).kind = "2xx")
           IN /\ outcome.status = "resolved"
              /\ ItemIds(outcome.value) = [k \in 1..Len(answered) |-> Str(bOp.ids[answered[k]])]
              /\ outcome.value.total = Num(Len(answered))

C12_Witness ==
    /\ bOp.op \in BulkOps
    /\ N = 3
    /\ AllSettled
    /\ IsUnknownIdentifier(Answer(2))
    /\ Answer(1).kind = "2xx"
    /\ Answer(3).kind = "2xx"
    /\ outcome.status = "resolved"
    /\ outcome.value.total = Num(2)

(***************************************************************************)
(* Properties of the content page create and update                        *)
(***************************************************************************)
Sent == bOp.request.body

\* C15 as stated: the masterTemplate sent on create and update is the mapped
\* name when the template is a key of the mapping table, and the template
\* unchanged when it is not.
C15_TemplateMapped ==
    bOp.op \in WriteOps =>
        Sent.masterTemplate =
            IF bOp.payload.template \in DOMAIN FStoSAPTemplateMapping
            THEN Str(FStoSAPTemplateMapping[bOp.payload.template])
            ELSE Str(bOp.payload.template)

\* C16: the payload sent on create and update has approvalStatus APPROVED and
\* pageStatus ACTIVE when visible is true, UNAPPROVED and DELETED when visible
\* is false, and never a mixed combination.
C16_VisibilityEncoding ==
    bOp.op \in WriteOps =>
        /\ ("visible" \in DOMAIN bOp.payload /\ bOp.payload.visible) =>
              (Sent.approvalStatus = "APPROVED" /\ Sent.pageStatus = "ACTIVE")
        /\ ("visible" \in DOMAIN bOp.payload /\ ~bOp.payload.visible) =>
              (Sent.approvalStatus = "UNAPPROVED" /\ Sent.pageStatus = "DELETED")
        /\ <<Sent.approvalStatus, Sent.pageStatus>>
              \in {<<"APPROVED", "ACTIVE">>, <<"UNAPPROVED", "DELETED">>}

C16_Witness ==
    /\ bOp.op = "contentPagesContentIdPut"
    /\ "visible" \in DOMAIN bOp.payload
    /\ ~bOp.payload.visible
    /\ Sent.pageStatus = "DELETED"
    /\ outcome.status = "resolved"

(***************************************************************************)
(* How a fetch writes the cache                                            *)
(***************************************************************************)
CacheKeys(nodes) == { c.id : c \in Range(nodes) } \cup { c.url : c \in Range(nodes) }
\* a step in which a call's full category fetch completes successfully
FetchCompletes ==
    /\ \E s \in Slots : calls[s].pc = "await" /\ calls'[s].pc = "idle"
    /\ last'.status = "resolved"
    /\ last'.fetched

\* C13 as stated: after a successful full category fetch the cache holds
\* exactly the entries of the categories of that fetch; entries of categories
\* of an earlier forest that are absent from the newest one do not remain.
C13_WholeBatchReplace ==
    (last.status = "resolved" /\ last.fetched) =>
        DOMAIN idCache = CacheKeys(Nodes(built))

C13_Written == CacheKeys(Nodes(built'))
C13_Step ==
    /\ DOMAIN idCache \subseteq DOMAIN idCache'
    /\ IF FetchCompletes
       THEN /\ DOMAIN idCache' = DOMAIN idCache \cup C13_Written
            /\ \A k \in DOMAIN idCache \ C13_Written : idCache'[k] = idCache[k]
       ELSE idCache' = idCache

\* C13 amended: a cache write adds to the cache and overwrites; immediately
\* after a successful full category fetch the keys of the cache are the keys
\* it had before together with the ids and urls of the categories the fetch
\* wrote, every entry under another key is as it was, and no entry is ever
\* removed.
C13_CacheOnlyGrows == [][C13_Step]_vars

\* a fetch has completed and the cache still holds a category that the fetched
\* forest no longer has
C13_Witness ==
    /\ last.status = "resolved"
    /\ last.fetched
    /\ \E k \in DOMAIN idCache : k \notin CacheKeys(Nodes(last.response.forest))

(***************************************************************************)
(* Properties of the tree, the list and the subtree search                 *)
(***************************************************************************)
IdsOf(items) == { items[i].id : i \in 1..Len(items) }

C14_ListAgreesWithTree ==
    LET tree == buildCategoryTree(remote)
    IN /\ Completed("getCategoryList") =>
             /\ Len(last.value.v) = countCategories(tree)
             /\ IdsOf(last.value.v) = IdsOf(TreeNodes(tree))
       /\ Completed("countCategories") =>
             /\ last.value.count.v = Len(getCategoryList(remote))
             /\ IdsOf(TreeNodes(last.value.tree.v)) = IdsOf(getCategoryList(remote))

\* C14: for every forest, the flat list of getCategoryList has the same
\* identifiers, and as many entries, as countCategories counts in the tree of
\* buildCategoryTree; and for every parentId categoryTreeGet reports the total
\* that categoriesGet without keyword reports.
C14_TreeListAgreement ==
    /\ C14_ListAgreesWithTree
    /\ Completed("totals") => last.value.tree.total = last.value.list.total

\* the list of a forest of three categories on three levels
C14_Witness ==
    /\ Completed("getCategoryList")
    /\ Len(remote) = 1
    /\ Len(remote[1].subcategories) = 1
    /\ Len(remote[1].subcategories[1].subcategories) = 1
    /\ Len(last.value.v) = 3

\* the nodes of the forest that carry the identifier searched for, in
\* depth-first pre-order
Hits == SelectSeq(Nodes(remote), LAMBDA c : c.id = last.call.parentId)
Shaped(subcategories) ==
    Arr(IF last.call.getTree THEN buildCategoryTree(subcategories)
                             ELSE getCategoryList(subcategories))
SubtreeSearched == Completed("getRelevantCategories") /\ last.call.parentId # NoParent

\* C17 as stated: the result of the subtree search is built from the
\* subcategories of the first node in pre-order that carries parentId.
C17_FirstMatchWins ==
    (SubtreeSearched /\ Hits # <<>>) => last.value = Shaped(Hits[1].subcategories)

\* C17 amended: the search visits the whole forest depth-first and does not
\* stop at a match; when several nodes carry parentId the result is built from
\* the subcategories of the last such node in pre-order.
C17_LastMatchWins ==
    (SubtreeSearched /\ Hits # <<>>) => last.value = Shaped(Hits[Len(Hits)].subcategories)

\* two nodes carry parentId, with different subcategory lists
C17_Witness ==
    /\ SubtreeSearched
    /\ Len(Hits) = 2
    /\ Hits[1].subcategories # Hits[2].subcategories
    /\ last.value = Shaped(Hits[2].subcategories)
    /\ last.value # Shaped(Hits[1].subcategories)

\* C18: with a non-empty parentId the subtree search returns undefined exactly
\* when no node at any depth carries parentId; otherwise it returns the shaped
\* subcategory list of a node that carries parentId, which is the empty list
\* when that node has no subcategories.
C18_UndefinedIffNoMatch ==
    SubtreeSearched =>
        /\ last.value = undefined <=> Hits = <<>>
        /\ Hits # <<>> =>
              /\ last.value.type = "array"
              /\ \E i \in 1..Len(Hits) : last.value = Shaped(Hits[i].subcategories)
              /\ (\A i \in 1..Len(Hits) : Hits[i].subcategories = <<>>) => last.value = Arr(<<>>)

\* the only node that carries parentId has no subcategories
C18_Witness ==
    /\ SubtreeSearched
    /\ Len(Hits) = 1
    /\ Hits[1].subcategories = <<>>
    /\ Len(Nodes(remote)) = 3
    /\ last.value = Arr(<<>>)

(***************************************************************************)
(* Join before settle in the lenient resolvers                             *)
(***************************************************************************)
\* the reason of the failed fetch that settled last
LastFailure ==
    LET failures == SelectSeq(order, LAMBDA i : Failed(i))
    IN fetches[failures[Len(failures)]].call.reason
ReportedFor(reason) ==
    IF bOp.op = "categoriesCategoryIdsGet" THEN reason
    ELSE [shopError |-> TRUE,
          message |-> IF "data" \in DOMAIN reason THEN reason.data ELSE undefined]

\* C19: a lenient resolver neither resolves nor rejects before every one of
\* its fetches has settled, and when a fetch was rejected the error it reports
\* is that of the rejected fetch that settled last (for products, the
\* ShopError of its data), whatever the order of completion.
C19_JoinBeforeSettle ==
    bOp.op \in LenientOps =>
        /\ outcome.status # "pending" => AllSettled
        /\ (AllSettled /\ FailedCount > 0) =>
              /\ outcome.status = "rejected"
              /\ outcome.error = ReportedFor(LastFailure)

\* two fetches failed differently, and the one that failed last is not the
\* last of the list
C19_Witness ==
    /\ bOp.op \in LenientOps
    /\ N = 3
    /\ AllSettled
    /\ Failed(order[2])
    /\ Failed(order[3])
    /\ order[3] < order[2]
    /\ fetches[order[2]].call.reason # fetches[order[3]].call.reason
    /\ outcome.status = "rejected"

(***************************************************************************)
(* No single flight on the cache build                                     *)
(***************************************************************************)
AwaitsUrlFetch(s) == calls[s].pc = "await" /\ calls[s].op = "getCategoryUrl"
Changed == { s \in Slots : calls'[s] # calls[s] }

C20_Step ==
    \* a call that starts on an empty cache issues a fetch of its own, whether
    \* or not another fetch is in flight
    /\ AnswersFromCache => idCache # EmptyMap
    /\ Cardinality(Changed) <= 1
    \* a call completes only with its own fetch
    /\ \A s \in Slots :
          (AwaitsUrlFetch(s) /\ calls'[s].pc = "idle") =>
              /\ last'.fetched
              /\ last'.call = [op |-> "getCategoryUrl", categoryId |-> calls[s].categoryId]
              /\ last'.status = "resolved" =>
                    last'.value = lookupUrl(idCache', calls[s].categoryId)
    \* the cache is written by a completing fetch only, and with all the
    \* entries of that fetch at once
    /\ idCache' # idCache =>
          /\ Cardinality(Changed) = 1
          /\ last'.fetched /\ last'.status = "resolved"
          /\ CacheKeys(Nodes(filterNamed(last'.response.forest))) \subseteq DOMAIN idCache'

\* C20: every getCategoryUrl call that starts while the cache is empty issues
\* its own fetch, overlapping calls each complete with their own fetch and
\* not with another's, and the entries of a fetch enter the cache in one step.
C20_NoSingleFlight == [][C20_Step]_vars

\* one of two overlapping calls has completed with its fetch and filled the
\* cache; the other still awaits its own
C20_Witness ==
    /\ Fetched("getCategoryUrl")
    /\ idCache # EmptyMap
    /\ \E s \in Slots : AwaitsUrlFetch(s)

====
